---- MODULE Spec2Model ----
(***************************************************************************)
(* Model of pyEliasFano: the Elias-Fano structure of EliasFano.py and the   *)
(* two structures built from it, UniformlyPartitionedEliasFano.py and      *)
(* MultiLevelEliasFano.py.                                                 *)
(* Python lists are sequences; Python's 0-based index i is position i+1.   *)
(* A call's outcome is a record: kind "int" (val), "list" (list), "bytes", *)
(* "object" or "error" (err names the exception class).  The caller is     *)
(* single-threaded: it makes one call at a time (op, args), reads its      *)
(* outcome (res) and returns to "idle" before the next call; ef is the one *)
(* structure built from X by a constructor, or the one rebuilt from the    *)
(* bytes in blob.  Spec and SpecBytes are about EliasFano, SpecUPEF and    *)
(* SpecMLEF about the two other classes, SpecNew about the constructors.   *)
(***************************************************************************)
EXTENDS Integers, Sequences, FiniteSets, TLC

\* longest input sequence handed to the constructor
MaxLen == 4
\* largest integer stored in an input sequence
MaxVal == 7
\* largest query argument x of rank / nextGEQ / nextLEQ
MaxArg == 9
\* largest value / ignore pattern handed to match
MaxMask == 7
\* largest chunk size b of a uniformly partitioned structure
MaxB == 5
\* largest depth of a multi-level structure
MaxDepth == 4
\* largest foreign kind tag put in front of a blob
MaxTag == 2

VARIABLES X, ef, op, args, res, blob, origin

vars == <<X, ef, op, args, res, blob, origin>>

----------------------------------------------------------------------------
\* outcomes of a call

OkInt(v) == [kind |-> "int", err |-> "none", val |-> v, list |-> <<>>]

OkList(s) == [kind |-> "list", err |-> "none", val |-> 0, list |-> s]

Raise(e) == [kind |-> "error", err |-> e, val |-> 0, list |-> <<>>]

----------------------------------------------------------------------------
\* integer and list primitives of Python used by the code

At(s, i) == s[i + 1]

Max2(a, b) == IF a >= b THEN a ELSE b

Min2(a, b) == IF a <= b THEN a ELSE b

SetMin(S) == CHOOSE m \in S : \A o \in S : m <= o

SetMax(S) == CHOOSE m \in S : \A o \in S : m >= o

RECURSIVE bit_length_int(_)
bit_length_int(x) == IF x = 0 THEN 0 ELSE 1 + bit_length_int(x \div 2)

RECURSIVE BitAnd(_, _)
BitAnd(a, b) ==
    IF a = 0 \/ b = 0 THEN 0
    ELSE (IF a % 2 = 1 /\ b % 2 = 1 THEN 1 ELSE 0) + 2 * BitAnd(a \div 2, b \div 2)

RECURSIVE BitOr(_, _)
BitOr(a, b) ==
    IF a = 0 THEN b
    ELSE IF b = 0 THEN a
    ELSE (IF a % 2 = 1 \/ b % 2 = 1 THEN 1 ELSE 0) + 2 * BitOr(a \div 2, b \div 2)

ShiftL(x, k) == x * (2 ^ k)

ShiftR(x, k) == x \div (2 ^ k)

\* math.ceil(math.log2(n)) for an integer n >= 1
CeilLog2(n) == CHOOSE h \in 0..n : 2 ^ h >= n /\ \A g \in 0..(h - 1) : 2 ^ g < n

\* math.floor(math.log2(u / n)) for integers u, n >= 1 (negative when u < n)
FloorLog2Ratio(u, n) ==
    IF u >= n
    THEN CHOOSE l \in 0..u : n * (2 ^ l) <= u /\ n * (2 ^ (l + 1)) > u
    ELSE 0 - (CHOOSE k \in 1..n : u * (2 ^ k) >= n /\ u * (2 ^ (k - 1)) < n)

RECURSIVE SumSeq(_)
SumSeq(s) == IF s = <<>> THEN 0 ELSE Head(s) + SumSeq(Tail(s))

\* list(accumulate(s))
Accumulate(s) == [j \in 1..Len(s) |-> SumSeq(SubSeq(s, 1, j))]

\* the members of a set of integers, as a list in ascending order
RECURSIVE SortedList(_)
SortedList(S) ==
    IF S = {} THEN <<>>
    ELSE LET m == SetMin(S) IN <<m>> \o SortedList(S \ {m})

----------------------------------------------------------------------------
\* EliasFano._split
split(e, x) == <<ShiftR(x, e.lower_bits), BitAnd(x, (2 ^ e.lower_bits) - 1)>>

\* EliasFano._encode: the lists _inferiors, _superiors, _superiors_prefixSums
encode_inferiors(xs, lower_bits) ==
    IF lower_bits > 0
    THEN [i \in 1..Len(xs) |-> BitAnd(xs[i], (2 ^ lower_bits) - 1)]
    ELSE <<>>

encode_superiors(xs, upper_bits, lower_bits) ==
    IF upper_bits > 0
    THEN [s \in 1..(2 ^ upper_bits) |->
             Cardinality({i \in 1..Len(xs) : ShiftR(xs[i], lower_bits) = s - 1})]
    ELSE <<>>

\* EliasFano.__init__ with upper_bits = floor(log2(n)) in place of the ceiling
EliasFano_floor_upper(xs) ==
    LET n == Len(xs)
        u == 2 ^ Max2(1, bit_length_int(xs[Len(xs)]))
        upper_bits == IF 2 ^ CeilLog2(n) = n THEN CeilLog2(n) ELSE CeilLog2(n) - 1
        lower_bits == Max2(0, FloorLog2Ratio(u, n))
        sups == encode_superiors(xs, upper_bits, lower_bits)
    IN [n |-> n, u |-> u, upper_bits |-> upper_bits, lower_bits |-> lower_bits,
        inferiors |-> encode_inferiors(xs, lower_bits),
        superiors |-> sups,
        superiors_prefixSums |-> Accumulate(sups)]

\* EliasFano.__init__
EliasFano(xs) ==
    LET n == Len(xs)
        u == 2 ^ Max2(1, bit_length_int(xs[Len(xs)]))
        upper_bits == CeilLog2(n)
        lower_bits == Max2(0, FloorLog2Ratio(u, n))
        sups == encode_superiors(xs, upper_bits, lower_bits)
    IN [n |-> n, u |-> u, upper_bits |-> upper_bits, lower_bits |-> lower_bits,
        inferiors |-> encode_inferiors(xs, lower_bits),
        superiors |-> sups,
        superiors_prefixSums |-> Accumulate(sups)]

\* EliasFano.select with the bucket search "cnt >= k" in place of "cnt > k"
select_geq(e, k) ==
    IF ~(0 <= k /\ k < e.n) THEN Raise("IndexError")
    ELSE LET inferior == IF k < Len(e.inferiors) THEN At(e.inferiors, k) ELSE 0
             hits == {s \in 0..(Len(e.superiors_prefixSums) - 1) :
                         At(e.superiors_prefixSums, s) >= k}
             superior == IF hits = {} THEN 0 ELSE SetMin(hits)
         IN OkInt(BitOr(ShiftL(superior, e.lower_bits), inferior))

\* EliasFano.select
select(e, k) ==
    IF ~(0 <= k /\ k < e.n) THEN Raise("IndexError")
    ELSE LET inferior == IF k < Len(e.inferiors) THEN At(e.inferiors, k) ELSE 0
             hits == {s \in 0..(Len(e.superiors_prefixSums) - 1) :
                         At(e.superiors_prefixSums, s) > k}
             superior == IF hits = {} THEN 0 ELSE SetMin(hits)
         IN OkInt(BitOr(ShiftL(superior, e.lower_bits), inferior))

\* the bucket of upper half sup_x as the index range
\* range(prefixSums[sup_x] - superiors[sup_x], prefixSums[sup_x]); both list
\* reads raise IndexError when sup_x is past the end of the lists
bucket_known(e, sup_x) == sup_x < Len(e.superiors_prefixSums) /\ sup_x < Len(e.superiors)

bucket_lo(e, sup_x) == At(e.superiors_prefixSums, sup_x) - At(e.superiors, sup_x)

bucket_hi(e, sup_x) == At(e.superiors_prefixSums, sup_x)

\* EliasFano.rank with the bucket range starting one index too late
rank_late(e, x) ==
    LET sup_x == split(e, x)[1]
        inf_x == split(e, x)[2]
    IN IF e.upper_bits > 0
       THEN IF ~bucket_known(e, sup_x) THEN Raise("IndexError")
            ELSE LET inferior_range == (bucket_lo(e, sup_x) + 1)..(bucket_hi(e, sup_x) - 1)
                 IN IF e.lower_bits > 0
                    THEN IF \E i \in inferior_range : i >= Len(e.inferiors)
                         THEN Raise("IndexError")
                         ELSE OkList(SortedList({i \in inferior_range :
                                                    At(e.inferiors, i) = inf_x}))
                    ELSE OkList(SortedList(inferior_range))
       ELSE IF e.lower_bits > 0
            THEN OkList(SortedList({i \in 0..(Len(e.inferiors) - 1) :
                                       At(e.inferiors, i) = inf_x}))
            ELSE Raise("ValueError")

\* EliasFano.rank
rank(e, x) ==
    LET sup_x == split(e, x)[1]
        inf_x == split(e, x)[2]
    IN IF e.upper_bits > 0
       THEN IF ~bucket_known(e, sup_x) THEN Raise("IndexError")
            ELSE LET inferior_range == bucket_lo(e, sup_x)..(bucket_hi(e, sup_x) - 1)
                 IN IF e.lower_bits > 0
                    THEN IF \E i \in inferior_range : i >= Len(e.inferiors)
                         THEN Raise("IndexError")
                         ELSE OkList(SortedList({i \in inferior_range :
                                                    At(e.inferiors, i) = inf_x}))
                    ELSE OkList(SortedList(inferior_range))
       ELSE IF e.lower_bits > 0
            THEN OkList(SortedList({i \in 0..(Len(e.inferiors) - 1) :
                                       At(e.inferiors, i) = inf_x}))
            ELSE Raise("ValueError")

\* EliasFano.nextGEQ.  An error of select(n - 1) or select(0) in the two
\* comparisons passes through.  The lazy filter reads _inferiors[i] for the
\* indices of the bucket in order and stops at the first hit; a read past the
\* end of _inferiors raises IndexError.
nextGEQ(e, x) ==
    IF select(e, e.n - 1).kind = "error" THEN select(e, e.n - 1)
    ELSE IF ~(x <= select(e, e.n - 1).val) THEN Raise("ValueError")
    ELSE IF select(e, 0).kind = "error" THEN select(e, 0)
    ELSE IF x <= select(e, 0).val THEN select(e, 0)
    ELSE LET sup_x == split(e, x)[1]
             inf_x == split(e, x)[2]
         IN IF ~bucket_known(e, sup_x) THEN Raise("IndexError")
            ELSE LET inferior_range == bucket_lo(e, sup_x)..(bucket_hi(e, sup_x) - 1)
                     stops == {i \in inferior_range :
                                  \/ i >= Len(e.inferiors)
                                  \/ At(e.inferiors, i) >= inf_x}
                 IN IF stops /= {} /\ SetMin(stops) >= Len(e.inferiors)
                    THEN Raise("IndexError")
                    ELSE LET found == IF stops = {} THEN e.n ELSE SetMin(stops)
                             k == Min2(found, bucket_hi(e, sup_x))
                         IN select(e, k)

\* EliasFano.nextLEQ; an error of select(0) or select(n - 1) in the two
\* comparisons passes through, and first() of an empty list raises ValueError
nextLEQ(e, x) ==
    IF select(e, 0).kind = "error" THEN select(e, 0)
    ELSE IF ~(x >= select(e, 0).val) THEN Raise("ValueError")
    ELSE IF select(e, e.n - 1).kind = "error" THEN select(e, e.n - 1)
    ELSE IF x >= select(e, e.n - 1).val THEN select(e, e.n - 1)
    ELSE LET g == nextGEQ(e, x)
         IN IF g.kind = "error" THEN g
            ELSE IF x = g.val THEN OkInt(x)
            ELSE LET r == rank(e, g.val)
                 IN IF r.kind = "error" THEN r
                    ELSE IF r.list = <<>> THEN Raise("ValueError")
                    ELSE select(e, Max2(0, r.list[1] - 1))

\* islice(lst, lo, hi): the items at indices lo..hi-1 that exist
islice(lst, lo, hi) ==
    LET stop == Min2(hi, Len(lst))
    IN IF lo >= stop THEN <<>> ELSE SubSeq(lst, lo + 1, stop)

\* filter(pred, lst) for a predicate given as the set of values it accepts
RECURSIVE FilterIn(_, _)
FilterIn(lst, keep) ==
    IF lst = <<>> THEN <<>>
    ELSE (IF Head(lst) \in keep THEN <<Head(lst)>> ELSE <<>>) \o FilterIn(Tail(lst), keep)

\* the matches of EliasFano.match from bucket idx on
RECURSIVE match_from(_, _, _, _)
match_from(e, value, ignore, idx) ==
    IF idx >= Len(e.superiors) THEN <<>>
    ELSE LET sup_value == split(e, value)[1]
             inf_value == split(e, value)[2]
             sup_ignore == split(e, ignore)[1]
             inf_ignore == split(e, ignore)[2]
             lows == islice(e.inferiors, bucket_lo(e, idx), bucket_hi(e, idx))
             keep == {lows[j] : j \in {j \in 1..Len(lows) :
                         BitAnd(lows[j], inf_ignore) = BitAnd(inf_value, inf_ignore)}}
             here == IF /\ At(e.superiors, idx) > 0
                        /\ BitAnd(idx, sup_ignore) = BitAnd(sup_value, sup_ignore)
                     THEN [j \in 1..Len(FilterIn(lows, keep)) |->
                              ShiftL(idx, e.lower_bits) + FilterIn(lows, keep)[j]]
                     ELSE <<>>
         IN here \o match_from(e, value, ignore, idx + 1)

\* EliasFano.match
match(e, value, ignore) ==
    IF e.upper_bits > 0
    THEN OkList(match_from(e, value, ignore, 0))
    ELSE LET inf_value == split(e, value)[2]
             inf_ignore == split(e, ignore)[2]
             keep == {e.inferiors[j] : j \in {j \in 1..Len(e.inferiors) :
                         BitAnd(e.inferiors[j], inf_ignore) = BitAnd(inf_value, inf_ignore)}}
         IN OkList(FilterIn(e.inferiors, keep))

\* EliasFano.__iter__ with both halves in use: bucket idx takes its count of
\* items from the one shared iterator over _inferiors, which is at item pos
RECURSIVE iter_from(_, _, _)
iter_from(e, idx, pos) ==
    IF idx >= Len(e.superiors) THEN <<>>
    ELSE LET cnt == At(e.superiors, idx)
             lows == islice(e.inferiors, pos, pos + cnt)
         IN [j \in 1..Len(lows) |-> ShiftL(idx, e.lower_bits) + lows[j]]
            \o iter_from(e, idx + 1, pos + cnt)

\* EliasFano.__iter__
iter(e) ==
    IF e.upper_bits /= 0
    THEN IF e.lower_bits /= 0
         THEN OkList(iter_from(e, 0, 0))
         ELSE LET full == SortedList({s \in 0..(Len(e.superiors) - 1) :
                                         At(e.superiors, s) > 0})
              IN OkList([j \in 1..Len(full) |-> ShiftL(full[j], e.lower_bits)])
    ELSE IF e.lower_bits /= 0
         THEN OkList(e.inferiors)
         ELSE Raise("ValueError")

\* EliasFano.__len__
len(e) == OkInt(e.n)

\* EliasFano.__getitem__
getitem(e, k) == select(e, k)

\* EliasFano.bit_length
bit_length(e) ==
    OkInt(SumSeq([s \in 1..Len(e.superiors) |-> e.superiors[s] + 1])
          + e.lower_bits * Len(e.inferiors))

\* EliasFano.compression_ratio: (n * log2(u)) / bit_length(), kept as the
\* fraction <<numerator, denominator>> in lowest terms
RECURSIVE Gcd(_, _)
Gcd(a, b) == IF b = 0 THEN a ELSE Gcd(b, a % b)

compression_ratio(e) ==
    LET num == e.n * (bit_length_int(e.u) - 1)
        den == bit_length(e).val
    IN IF den = 0 THEN Raise("ZeroDivisionError")
       ELSE OkList(<<num \div Gcd(num, den), den \div Gcd(num, den)>>)

----------------------------------------------------------------------------
\* bytes are lists of integers 0..255, bit strings are lists of 0 and 1

OkBytes(bs) == [kind |-> "bytes", err |-> "none", val |-> Len(bs), list |-> bs]

OkObject == [kind |-> "object", err |-> "none", val |-> 0, list |-> <<>>]

\* format(v, "b"): the binary digits of v, "0" for 0
RECURSIVE Bin(_)
Bin(v) == IF v < 2 THEN <<v>> ELSE Bin(v \div 2) \o <<v % 2>>

\* ("{0:0%db}" % w).format(v): the digits of v, zero-filled on the left to w
ZeroFill(v, w) ==
    LET digits == Bin(v)
    IN [j \in 1..(IF w > Len(digits) THEN w - Len(digits) ELSE 0) |-> 0] \o digits

\* int(bits, 2)
RECURSIVE IntOfBits(_)
IntOfBits(bits) ==
    IF bits = <<>> THEN 0
    ELSE 2 * IntOfBits(SubSeq(bits, 1, Len(bits) - 1)) + bits[Len(bits)]

\* reduce(lambda a, b: a + b, ...) over strings
RECURSIVE Concat(_)
Concat(ss) == IF ss = <<>> THEN <<>> ELSE Head(ss) \o Concat(Tail(ss))

\* math.ceil(k / 8.0)
CeilDiv8(k) == (k + 7) \div 8

\* int.to_bytes(count, 'little')
RECURSIVE BytesLE(_, _)
BytesLE(v, count) ==
    IF count = 0 THEN <<>> ELSE <<v % 256>> \o BytesLE(v \div 256, count - 1)

\* int.from_bytes(bs, 'little')
RECURSIVE IntLE(_)
IntLE(bs) == IF bs = <<>> THEN 0 ELSE Head(bs) + 256 * IntLE(Tail(bs))

\* uvarint.encode
RECURSIVE uvarint_encode(_)
uvarint_encode(v) ==
    IF v \div 128 /= 0
    THEN <<(v % 128) + 128>> \o uvarint_encode(v \div 128)
    ELSE <<v % 128>>

\* uvarint.cut(count, buf): count integers off the front of buf and the rest;
\* a buffer that ends inside an integer raises EOFError
RECURSIVE varint_end(_, _)
varint_end(buf, i) ==
    IF i > Len(buf) THEN 0
    ELSE IF buf[i] >= 128 THEN varint_end(buf, i + 1) ELSE i

RECURSIVE varint_value(_)
varint_value(bs) ==
    IF bs = <<>> THEN 0 ELSE (Head(bs) % 128) + 128 * varint_value(Tail(bs))

RECURSIVE uvarint_cut(_, _)
uvarint_cut(count, buf) ==
    IF count = 0 THEN [ok |-> TRUE, integers |-> <<>>, rest |-> buf]
    ELSE LET last == varint_end(buf, 1)
         IN IF last = 0 THEN [ok |-> FALSE, integers |-> <<>>, rest |-> <<>>]
            ELSE LET more == uvarint_cut(count - 1, SubSeq(buf, last + 1, Len(buf)))
                 IN [ok |-> more.ok,
                     integers |-> <<varint_value(SubSeq(buf, 1, last))>> \o more.integers,
                     rest |-> more.rest]

\* the lower halves at fixed width, the upper halves in negated unary
inferiors_bits(e) ==
    IntOfBits(Concat([j \in 1..Len(e.inferiors) |-> ZeroFill(e.inferiors[j], e.lower_bits)]))

superiors_bits(e) ==
    IntOfBits(Concat([j \in 1..Len(e.superiors) |->
                         [i \in 1..e.superiors[j] |-> 1] \o <<0>>]))

inferiors_byte_count(e) ==
    IF e.inferiors /= <<>>
    THEN Max2(1, CeilDiv8(bit_length_int(inferiors_bits(e))))
    ELSE 0

superiors_byte_count(e) ==
    IF e.superiors /= <<>>
    THEN Max2(1, CeilDiv8(bit_length_int(superiors_bits(e))))
    ELSE 0

to_bytes_header(e) ==
    uvarint_encode(0) \o uvarint_encode(e.n) \o uvarint_encode(e.lower_bits)
        \o uvarint_encode(e.upper_bits) \o uvarint_encode(inferiors_byte_count(e))
        \o uvarint_encode(superiors_byte_count(e))

\* EliasFano.to_bytes
to_bytes(e) ==
    OkBytes(to_bytes_header(e)
            \o (IF inferiors_byte_count(e) /= 0
                THEN BytesLE(inferiors_bits(e), inferiors_byte_count(e)) ELSE <<>>)
            \o (IF superiors_byte_count(e) /= 0
                THEN BytesLE(superiors_bits(e), superiors_byte_count(e)) ELSE <<>>))

\* windowed(bits, w, step=w) read back as integers: the bits in groups of w
windowed_ints(bits, w) ==
    [j \in 1..(Len(bits) \div w) |-> IntOfBits(SubSeq(bits, (j - 1) * w + 1, j * w))]

\* the lengths of the runs of 1 that split_at cuts at every 0
RECURSIVE run_lengths(_, _)
run_lengths(bits, run) ==
    IF bits = <<>> THEN <<run>>
    ELSE IF Head(bits) = 0 THEN <<run>> \o run_lengths(Tail(bits), 0)
    ELSE run_lengths(Tail(bits), run + 1)

\* take(count, bytes_iter) for an iterator that stands at item pos
take(buf, pos, count) == islice(buf, pos, pos + count)

\* EliasFano.from_bytes: the outcome and, when it returns, the structure
from_bytes(index_bytes) ==
    LET tag == uvarint_cut(1, index_bytes)
    IN IF ~tag.ok THEN [out |-> Raise("EOFError")]
       ELSE IF tag.integers[1] /= 0 THEN [out |-> Raise("Exception")]
       ELSE LET head == uvarint_cut(5, tag.rest)
            IN IF ~head.ok THEN [out |-> Raise("EOFError")]
               ELSE LET n == head.integers[1]
                        lower_bits == head.integers[2]
                        upper_bits == head.integers[3]
                        inf_count == head.integers[4]
                        sup_count == head.integers[5]
                        inf_text == ZeroFill(IntLE(take(head.rest, 0, inf_count)),
                                             n * lower_bits)
                        sup_text == ZeroFill(IntLE(take(head.rest, inf_count, sup_count)),
                                             n + 2 ^ upper_bits)
                        runs == run_lengths(sup_text, 0)
                        sups == IF sup_count /= 0
                                THEN SubSeq(runs, 1, Len(runs) - 1) ELSE <<>>
                    IN IF inf_count /= 0 /\ lower_bits = 0
                       THEN [out |-> Raise("ValueError")]
                       ELSE IF inf_count /= 0 /\ Len(inf_text) % lower_bits /= 0
                       THEN [out |-> Raise("TypeError")]
                       ELSE [out |-> OkObject,
                             obj |-> [n |-> n,
                                      u |-> 2 ^ Max2(1, lower_bits + upper_bits),
                                      upper_bits |-> upper_bits,
                                      lower_bits |-> lower_bits,
                                      inferiors |-> IF inf_count /= 0
                                                    THEN windowed_ints(inf_text, lower_bits)
                                                    ELSE <<>>,
                                      superiors |-> sups,
                                      superiors_prefixSums |-> Accumulate(sups)]]

----------------------------------------------------------------------------
\* the inputs: non-empty non-decreasing lists of non-negative integers

SortedInputs ==
    UNION {{xs \in [1..n -> 0..MaxVal] : \A i \in 1..(n - 1) : xs[i] <= xs[i + 1]}
           : n \in 1..MaxLen}

Init ==
    /\ X \in SortedInputs
    /\ ef = EliasFano(X)
    /\ op = "idle"
    /\ args = <<>>
    /\ res = OkInt(0)
    /\ blob = <<>>
    /\ origin = "constructor"

Select ==
    \E k \in (0 - 1)..MaxLen :
        /\ op = "idle"
        /\ op' = "select"
        /\ args' = <<k>>
        /\ res' = select(ef, k)
        /\ UNCHANGED <<X, ef, blob, origin>>

Rank ==
    \E x \in 0..MaxArg :
        /\ op = "idle"
        /\ op' = "rank"
        /\ args' = <<x>>
        /\ res' = rank(ef, x)
        /\ UNCHANGED <<X, ef, blob, origin>>

NextGEQ ==
    \E x \in 0..MaxArg :
        /\ op = "idle"
        /\ op' = "nextGEQ"
        /\ args' = <<x>>
        /\ res' = nextGEQ(ef, x)
        /\ UNCHANGED <<X, ef, blob, origin>>

NextLEQ ==
    \E x \in 0..MaxArg :
        /\ op = "idle"
        /\ op' = "nextLEQ"
        /\ args' = <<x>>
        /\ res' = nextLEQ(ef, x)
        /\ UNCHANGED <<X, ef, blob, origin>>

Match ==
    \E value \in 0..MaxMask, ignore \in 0..MaxMask :
        /\ op = "idle"
        /\ op' = "match"
        /\ args' = <<value, ignore>>
        /\ res' = match(ef, value, ignore)
        /\ UNCHANGED <<X, ef, blob, origin>>

\* EliasFano.__iter__ taking the lower values out of _inferiors as it reads them
IterPopping ==
    /\ op = "idle"
    /\ op' = "iter"
    /\ args' = <<>>
    /\ res' = iter(ef)
    /\ ef' = [ef EXCEPT !.inferiors = <<>>]
    /\ UNCHANGED <<X, blob, origin>>

\* EliasFano.__iter__
Iter ==
    /\ op = "idle"
    /\ op' = "iter"
    /\ args' = <<>>
    /\ res' = iter(ef)
    /\ UNCHANGED <<X, ef, blob, origin>>

LenOp ==
    /\ op = "idle"
    /\ op' = "len"
    /\ args' = <<>>
    /\ res' = len(ef)
    /\ UNCHANGED <<X, ef, blob, origin>>

BitLength ==
    /\ op = "idle"
    /\ op' = "bit_length"
    /\ args' = <<>>
    /\ res' = bit_length(ef)
    /\ UNCHANGED <<X, ef, blob, origin>>

\* the caller has consumed the outcome of its call and may call again
Return ==
    /\ op /= "idle"
    /\ op' = "idle"
    /\ args' = <<>>
    /\ res' = OkInt(0)
    /\ UNCHANGED <<X, ef, blob, origin>>

Next ==
    \/ Select
    \/ Rank
    \/ NextGEQ
    \/ NextLEQ
    \/ Match
    \/ Iter
    \/ LenOp
    \/ BitLength
    \/ Return

Spec == Init /\ [][Next]_vars

\* EliasFano.compression_ratio
CompressionRatio ==
    /\ op = "idle"
    /\ op' = "compression_ratio"
    /\ args' = <<>>
    /\ res' = compression_ratio(ef)
    /\ UNCHANGED <<X, ef, blob, origin>>

\* EliasFano.to_bytes; the caller keeps the bytes
ToBytes ==
    /\ op = "idle"
    /\ op' = "to_bytes"
    /\ args' = <<>>
    /\ res' = to_bytes(ef)
    /\ blob' = to_bytes(ef).list
    /\ UNCHANGED <<X, ef, origin>>

\* EliasFano.from_bytes of the bytes kept; the caller goes on with the
\* structure it returns
FromBytes ==
    /\ op = "idle"
    /\ blob /= <<>>
    /\ op' = "from_bytes"
    /\ args' = <<blob>>
    /\ res' = from_bytes(blob).out
    /\ IF from_bytes(blob).out.kind = "object"
       THEN ef' = from_bytes(blob).obj /\ origin' = "from_bytes"
       ELSE UNCHANGED <<ef, origin>>
    /\ UNCHANGED <<X, blob>>

\* the blobs a damaged copy of the bytes kept can be: cut short inside the
\* payload, or with another kind tag in front
Damaged ==
    {SubSeq(blob, 1, m) :
        m \in (Len(blob) - Len(uvarint_cut(6, blob).rest))..(Len(blob) - 1)}
        \cup {<<t>> \o Tail(blob) : t \in 1..MaxTag}

\* EliasFano.from_bytes of a damaged blob; the caller only looks at whether
\* it fails and drops a structure that comes back
FromDamagedBytes ==
    /\ op = "idle"
    /\ blob /= <<>>
    /\ \E data \in Damaged :
           /\ op' = "from_bytes"
           /\ args' = <<data>>
           /\ res' = from_bytes(data).out
    /\ UNCHANGED <<X, ef, blob, origin>>

\* EliasFano.__getitem__
GetItem ==
    \E k \in (0 - 1)..MaxLen :
        /\ op = "idle"
        /\ op' = "getitem"
        /\ args' = <<k>>
        /\ res' = getitem(ef, k)
        /\ UNCHANGED <<X, ef, blob, origin>>

NextBytes ==
    \/ Select
    \/ GetItem
    \/ Rank
    \/ NextGEQ
    \/ NextLEQ
    \/ Match
    \/ Iter
    \/ LenOp
    \/ BitLength
    \/ CompressionRatio
    \/ ToBytes
    \/ FromBytes
    \/ FromDamagedBytes
    \/ Return

SpecBytes == Init /\ [][NextBytes]_vars

----------------------------------------------------------------------------
\* UniformlyPartitionedEliasFano: a first-level EliasFano over the first
\* element of each chunk of b consecutive inputs and one EliasFano per chunk
\* over the chunk's elements minus its first

\* the chunks numbers[i:i + b] for i in range(0, len(numbers), b)
chunks_of(numbers, b) ==
    [c \in 1..((Len(numbers) + b - 1) \div b) |->
        islice(numbers, (c - 1) * b, (c - 1) * b + b)]

\* UniformlyPartitionedEliasFano.__init__ for a non-empty non-decreasing list
\* and b >= 1
UniformlyPartitionedEliasFano(numbers, b) ==
    LET chunks == chunks_of(numbers, b)
        L == [j \in 1..Len(chunks) |-> chunks[j][1]]
        rel == [j \in 1..Len(chunks) |->
                   [k \in 1..Len(chunks[j]) |-> chunks[j][k] - L[j]]]
    IN [n |-> Len(numbers),
        u |-> 2 ^ bit_length_int(numbers[Len(numbers)]),
        b |-> b,
        level_1 |-> EliasFano(L),
        level_2 |-> [j \in 1..Len(rel) |-> EliasFano(rel[j])]]

\* UniformlyPartitionedEliasFano.__len__
UPEF_len(p) == OkInt(SumSeq([j \in 1..Len(p.level_2) |-> len(p.level_2[j]).val]))

\* UniformlyPartitionedEliasFano.select returning the offset inside the chunk
\* without the chunk's first element added
UPEF_select_offset_only(p, i) ==
    IF ~(0 <= i /\ i < UPEF_len(p).val) THEN Raise("IndexError")
    ELSE LET j == i \div p.b
             k == i % p.b
         IN select(At(p.level_2, j), k)

\* UniformlyPartitionedEliasFano.select
UPEF_select(p, i) ==
    IF ~(0 <= i /\ i < UPEF_len(p).val) THEN Raise("IndexError")
    ELSE LET j == i \div p.b
             k == i % p.b
             e == select(At(p.level_2, j), k)
             first_of_chunk == select(p.level_1, j)
         IN IF e.kind = "error" THEN e
            ELSE IF first_of_chunk.kind = "error" THEN first_of_chunk
            ELSE OkInt(first_of_chunk.val + e.val)

\* UniformlyPartitionedEliasFano.rank.  EliasFano.rank returns a list (or an
\* iterator) of indices, and select(j) compares 0 <= j with that list, which
\* raises TypeError; a ValueError from the first level is raised again as
\* ValueError and any other error passes through, as does an error of
\* select(0) or select(n - 1) in the chained comparison, which reads
\* select(n - 1) only when select(0) <= x.
UPEF_rank(p, x) ==
    IF UPEF_select(p, 0).kind = "error" THEN UPEF_select(p, 0)
    ELSE IF ~(UPEF_select(p, 0).val <= x) THEN Raise("ValueError")
    ELSE IF UPEF_select(p, p.n - 1).kind = "error" THEN UPEF_select(p, p.n - 1)
    ELSE IF ~(x <= UPEF_select(p, p.n - 1).val) THEN Raise("ValueError")
    ELSE LET q == nextLEQ(p.level_1, x)
         IN IF q.kind = "error" THEN q
            ELSE LET j == rank(p.level_1, q.val)
                 IN IF j.kind = "error" THEN j
                    ELSE Raise("TypeError")

\* UniformlyPartitionedEliasFano.__iter__: zip pairs the items the first level
\* yields with the second-level structures and stops with the shorter of them
UPEF_iter(p) ==
    LET firsts == iter(p.level_1)
        pairs == Min2(Len(firsts.list), Len(p.level_2))
    IN IF firsts.kind = "error" THEN firsts
       ELSE IF \E j \in 1..pairs : iter(p.level_2[j]).kind = "error"
       THEN Raise("ValueError")
       ELSE OkList(Concat([j \in 1..pairs |->
                [v \in 1..Len(iter(p.level_2[j]).list) |->
                    firsts.list[j] + iter(p.level_2[j]).list[v]]]))

\* a call that returns None
OkNone == [kind |-> "none", err |-> "none", val |-> 0, list |-> <<>>]

\* UniformlyPartitionedEliasFano.__getitem__: calls select and, having no
\* return statement, returns None unless select raised
UPEF_getitem(p, i) ==
    IF UPEF_select(p, i).kind = "error" THEN UPEF_select(p, i) ELSE OkNone

InitUPEF ==
    /\ X \in SortedInputs
    /\ \E b \in 1..MaxB : ef = UniformlyPartitionedEliasFano(X, b)
    /\ op = "idle"
    /\ args = <<>>
    /\ res = OkInt(0)
    /\ blob = <<>>
    /\ origin = "constructor"

UPEFSelect ==
    \E i \in (0 - 1)..MaxLen :
        /\ op = "idle"
        /\ op' = "select"
        /\ args' = <<i>>
        /\ res' = UPEF_select(ef, i)
        /\ UNCHANGED <<X, ef, blob, origin>>

UPEFRank ==
    \E x \in 0..MaxArg :
        /\ op = "idle"
        /\ op' = "rank"
        /\ args' = <<x>>
        /\ res' = UPEF_rank(ef, x)
        /\ UNCHANGED <<X, ef, blob, origin>>

UPEFIter ==
    /\ op = "idle"
    /\ op' = "iter"
    /\ args' = <<>>
    /\ res' = UPEF_iter(ef)
    /\ UNCHANGED <<X, ef, blob, origin>>

UPEFLen ==
    /\ op = "idle"
    /\ op' = "len"
    /\ args' = <<>>
    /\ res' = UPEF_len(ef)
    /\ UNCHANGED <<X, ef, blob, origin>>

UPEFGetItem ==
    \E i \in (0 - 1)..MaxLen :
        /\ op = "idle"
        /\ op' = "getitem"
        /\ args' = <<i>>
        /\ res' = UPEF_getitem(ef, i)
        /\ UNCHANGED <<X, ef, blob, origin>>

NextUPEF ==
    \/ UPEFSelect
    \/ UPEFGetItem
    \/ UPEFRank
    \/ UPEFIter
    \/ UPEFLen
    \/ Return

SpecUPEF == InitUPEF /\ [][NextUPEF]_vars

----------------------------------------------------------------------------
\* MultiLevelEliasFano: level 1 is an EliasFano over the distinct b-bit
\* prefixes, level 2 holds for each prefix (in keys, in insertion order) the
\* suffixes that follow it, as an EliasFano or a MultiLevelEliasFano of depth
\* d - 1; a leaf has no level 2 and level 1 holds the sequence itself

\* int(math.log2(u)) for u a power of two
log2_int(u) == bit_length_int(u) - 1

\* a child of level 2 is a MultiLevelEliasFano rather than an EliasFano
IsMultiLevel(c) == "d" \in DOMAIN c

\* the suffixes grouped under prefix_val: x & int("1" * width, 2) of every x
\* with x >> width = prefix_val, in order
suffixes_of(sorted_integers, width, prefix_val) ==
    LET under == FilterIn(sorted_integers,
                          {x \in 0..sorted_integers[Len(sorted_integers)] :
                              ShiftR(x, width) = prefix_val})
    IN [i \in 1..Len(under) |-> BitAnd(under[i], (2 ^ width) - 1)]

\* MultiLevelEliasFano.__init__ for a non-empty non-decreasing list and
\* depth >= 1
RECURSIVE MultiLevelEliasFano(_, _)
MultiLevelEliasFano(sorted_integers, depth) ==
    LET n == Len(sorted_integers)
        max_bits == Max2(1, bit_length_int(sorted_integers[n]))
        b == max_bits \div depth
        L == SortedList({ShiftR(sorted_integers[i], max_bits - b) : i \in 1..n})
        child(prefix_val) ==
            LET suffixes == suffixes_of(sorted_integers, max_bits - b, prefix_val)
            IN IF Len(suffixes) > 2 ^ b
               THEN MultiLevelEliasFano(suffixes, depth - 1)
               ELSE EliasFano(suffixes)
    IN IF depth > 1 /\ n > 1
       THEN [n |-> n, u |-> 2 ^ max_bits, d |-> depth, b |-> b,
             level_1 |-> EliasFano(L),
             keys |-> L,
             level_2 |-> [j \in 1..Len(L) |-> child(L[j])]]
       ELSE [n |-> n, u |-> 2 ^ max_bits, d |-> depth, b |-> b,
             level_1 |-> EliasFano(sorted_integers),
             keys |-> <<>>,
             level_2 |-> <<>>]

\* MultiLevelEliasFano.__len__
MLEF_len(m) == OkInt(m.n)

\* MultiLevelEliasFano.select adding the prefix without shifting it left
RECURSIVE MLEF_select_unshifted(_, _)
MLEF_select_unshifted(m, k) ==
    IF m.level_2 /= <<>>
    THEN LET sizes == [j \in 1..Len(m.level_2) |-> m.level_2[j].n]
             hits == {h \in 0..(Len(sizes) - 1) : At(Accumulate(sizes), h) > k}
         IN IF hits = {} THEN Raise("ValueError")
            ELSE LET h == SetMin(hits)
                     l == SumSeq(SubSeq(sizes, 1, h))
                     inf == IF IsMultiLevel(At(m.level_2, h))
                            THEN MLEF_select_unshifted(At(m.level_2, h), k - l)
                            ELSE select(At(m.level_2, h), k - l)
                     sup == select(m.level_1, h)
                 IN IF inf.kind = "error" THEN inf
                    ELSE IF sup.kind = "error" THEN sup
                    ELSE OkInt(sup.val + inf.val)
    ELSE select(m.level_1, k)

\* MultiLevelEliasFano.select; first() of no bucket raises ValueError
RECURSIVE MLEF_select(_, _)
MLEF_select(m, k) ==
    IF m.level_2 /= <<>>
    THEN LET sizes == [j \in 1..Len(m.level_2) |-> m.level_2[j].n]
             hits == {h \in 0..(Len(sizes) - 1) : At(Accumulate(sizes), h) > k}
         IN IF hits = {} THEN Raise("ValueError")
            ELSE LET h == SetMin(hits)
                     l == SumSeq(SubSeq(sizes, 1, h))
                     inf == IF IsMultiLevel(At(m.level_2, h))
                            THEN MLEF_select(At(m.level_2, h), k - l)
                            ELSE select(At(m.level_2, h), k - l)
                     sup == select(m.level_1, h)
                 IN IF inf.kind = "error" THEN inf
                    ELSE IF sup.kind = "error" THEN sup
                    ELSE OkInt(ShiftL(sup.val, log2_int(m.u) - m.b) + inf.val)
    ELSE select(m.level_1, k)

\* the first error among outcomes, or the lists of all of them spliced
splice(outcomes) ==
    LET errors == {j \in 1..Len(outcomes) : outcomes[j].kind = "error"}
    IN IF errors /= {} THEN outcomes[SetMin(errors)]
       ELSE OkList(Concat([j \in 1..Len(outcomes) |-> outcomes[j].list]))

\* MultiLevelEliasFano.match; a level-1 match that is no key of level 2
\* raises KeyError
RECURSIVE MLEF_match(_, _, _)
MLEF_match(m, value, ignore) ==
    LET suffix_bit_width == log2_int(m.u) - m.b
        sup_value == ShiftR(value, suffix_bit_width)
        sup_ignore == ShiftR(ignore, suffix_bit_width)
        inf_value == BitAnd(value, (2 ^ suffix_bit_width) - 1)
        inf_ignore == BitAnd(ignore, (2 ^ suffix_bit_width) - 1)
        labels == iter(m.level_1)
        lvl1_matches ==
            FilterIn(labels.list,
                     {labels.list[j] : j \in {j \in 1..Len(labels.list) :
                         BitAnd(labels.list[j], sup_ignore) = BitAnd(sup_value, sup_ignore)}})
        under(lvl1_match) ==
            LET at == {j \in 1..Len(m.keys) : m.keys[j] = lvl1_match}
                c == m.level_2[SetMin(at)]
                lvl2 == IF IsMultiLevel(c) THEN MLEF_match(c, inf_value, inf_ignore)
                        ELSE match(c, inf_value, inf_ignore)
            IN IF at = {} THEN Raise("KeyError")
               ELSE IF lvl2.kind = "error" THEN lvl2
               ELSE OkList([v \in 1..Len(lvl2.list) |->
                               ShiftL(lvl1_match, suffix_bit_width) + lvl2.list[v]])
    IN IF labels.kind = "error" THEN labels
       ELSE IF m.level_2 /= <<>>
       THEN splice([j \in 1..Len(lvl1_matches) |-> under(lvl1_matches[j])])
       ELSE OkList(lvl1_matches)

\* MultiLevelEliasFano.__iter__
RECURSIVE MLEF_iter(_)
MLEF_iter(m) ==
    LET under(j) ==
            LET c == m.level_2[j]
                lvl2 == IF IsMultiLevel(c) THEN MLEF_iter(c) ELSE iter(c)
            IN IF lvl2.kind = "error" THEN lvl2
               ELSE OkList([v \in 1..Len(lvl2.list) |->
                               ShiftL(m.keys[j], log2_int(m.u) - m.b) + lvl2.list[v]])
    IN IF m.level_2 /= <<>>
       THEN splice([j \in 1..Len(m.level_2) |-> under(j)])
       ELSE iter(m.level_1)

\* sorted(self._level_2.items()) followed by itemgetter(1): the children in
\* ascending order of their keys
sorted_items(m) ==
    LET ks == SortedList({m.keys[j] : j \in 1..Len(m.keys)})
    IN [i \in 1..Len(ks) |->
           m.level_2[CHOOSE j \in 1..Len(m.keys) : m.keys[j] = ks[i]]]

\* MultiLevelEliasFano.to_bytes.  The children are written in ascending order
\* of their keys.  Without a level 2 the three-name assignment from the int 0
\* raises TypeError.  With one, max() has used up the iterator of the
\* children's byte counts before the loop that is to write them runs, so the
\* header is followed directly by the bytes of level 1.
RECURSIVE MLEF_to_bytes(_)
MLEF_to_bytes(m) ==
    LET level_1 == to_bytes(m.level_1)
        level_2_count == Len(m.level_2)
        rep_size_n == Max2(1, CeilDiv8(bit_length_int(m.n)))
        rep_size_level_1_byte_count == Max2(1, CeilDiv8(bit_length_int(level_1.val)))
        rep_size_level_2_count == Max2(1, CeilDiv8(bit_length_int(level_2_count)))
        level_2 == [j \in 1..level_2_count |->
                       IF IsMultiLevel(sorted_items(m)[j])
                       THEN MLEF_to_bytes(sorted_items(m)[j])
                       ELSE to_bytes(sorted_items(m)[j])]
        rep_size_max_level_2_byte_count ==
            Max2(1, CeilDiv8(bit_length_int(SetMax({level_2[j].val : j \in 1..level_2_count}))))
    IN IF level_2_count = 0 THEN Raise("TypeError")
       ELSE IF splice(level_2).kind = "error" THEN splice(level_2)
       ELSE OkBytes(<<1, rep_size_n, rep_size_level_1_byte_count,
                      rep_size_level_2_count, rep_size_max_level_2_byte_count>>
                    \o BytesLE(m.n, rep_size_n)
                    \o <<log2_int(m.u), m.d, m.b>>
                    \o BytesLE(level_1.val, rep_size_level_1_byte_count)
                    \o BytesLE(level_2_count, rep_size_level_2_count)
                    \o level_1.list
                    \o splice(level_2).list)

\* MultiLevelEliasFano.__getitem__
MLEF_getitem(m, k) == MLEF_select(m, k)

\* the keys of the dict that "for label, index in zip(labels, indices)" fills:
\* the labels paired with an index, each once, in order of first occurrence
RECURSIVE dict_keys(_, _)
dict_keys(labels, seen) ==
    IF labels = <<>> THEN <<>>
    ELSE IF Head(labels) \in seen THEN dict_keys(Tail(labels), seen)
    ELSE <<Head(labels)>> \o dict_keys(Tail(labels), seen \cup {Head(labels)})

\* MultiLevelEliasFano.from_bytes.  Every field is read with take() from one
\* iterator over the bytes, which yields fewer bytes (or none) once the blob
\* is used up; the kind byte is read and not compared with anything.  The
\* bytes of level 1 go to EliasFano.from_bytes, those of a child to
\* MultiLevelEliasFano.from_bytes when their first byte is 1 and to
\* EliasFano.from_bytes otherwise (x[0] of no bytes raises IndexError), and
\* the children are keyed by the items level 1 yields.
RECURSIVE MLEF_from_bytes(_)
MLEF_from_bytes(index_bytes) ==
    LET rep_size_n == IntLE(take(index_bytes, 1, 1))
        rep_size_level_1_byte_count == IntLE(take(index_bytes, 2, 1))
        rep_size_level_2_count == IntLE(take(index_bytes, 3, 1))
        rep_size_max_level_2_byte_count == IntLE(take(index_bytes, 4, 1))
        n == IntLE(take(index_bytes, 5, rep_size_n))
        at_bits == 5 + rep_size_n
        max_bits == IntLE(take(index_bytes, at_bits, 1))
        d == IntLE(take(index_bytes, at_bits + 1, 1))
        b == IntLE(take(index_bytes, at_bits + 2, 1))
        at_counts == at_bits + 3
        level_1_byte_count ==
            IntLE(take(index_bytes, at_counts, rep_size_level_1_byte_count))
        level_2_count ==
            IntLE(take(index_bytes, at_counts + rep_size_level_1_byte_count,
                       rep_size_level_2_count))
        at_child_counts ==
            at_counts + rep_size_level_1_byte_count + rep_size_level_2_count
        level_2_byte_counts ==
            [j \in 1..level_2_count |->
                IntLE(take(index_bytes,
                           at_child_counts + (j - 1) * rep_size_max_level_2_byte_count,
                           rep_size_max_level_2_byte_count))]
        at_data == at_child_counts + level_2_count * rep_size_max_level_2_byte_count
        level_1 == from_bytes(take(index_bytes, at_data, level_1_byte_count))
        level_2_bytes ==
            [j \in 1..level_2_count |->
                take(index_bytes,
                     at_data + level_1_byte_count
                         + SumSeq(SubSeq(level_2_byte_counts, 1, j - 1)),
                     level_2_byte_counts[j])]
        index(x) == IF x = <<>> THEN [out |-> Raise("IndexError")]
                    ELSE IF x[1] = 1 THEN MLEF_from_bytes(x)
                    ELSE from_bytes(x)
        level_2_indices == [j \in 1..level_2_count |-> index(level_2_bytes[j])]
        failed == {j \in 1..level_2_count : level_2_indices[j].out.kind = "error"}
        labels == iter(level_1.obj)
        pairs == Min2(Len(labels.list), level_2_count)
        keys == dict_keys(SubSeq(labels.list, 1, pairs), {})
        last_with(label) ==
            SetMax({j \in 1..pairs : labels.list[j] = label})
    IN IF level_1.out.kind = "error" THEN [out |-> level_1.out]
       ELSE IF level_2_count = 0
       THEN [out |-> OkObject,
             obj |-> [n |-> n, u |-> 2 ^ max_bits, d |-> d, b |-> b,
                      level_1 |-> level_1.obj, keys |-> <<>>, level_2 |-> <<>>]]
       ELSE IF failed /= {} THEN [out |-> level_2_indices[SetMin(failed)].out]
       ELSE IF labels.kind = "error" THEN [out |-> labels]
       ELSE [out |-> OkObject,
             obj |-> [n |-> n, u |-> 2 ^ max_bits, d |-> d, b |-> b,
                      level_1 |-> level_1.obj,
                      keys |-> keys,
                      level_2 |-> [j \in 1..Len(keys) |->
                                      level_2_indices[last_with(keys[j])].obj]]]

InitMLEF ==
    /\ X \in SortedInputs
    /\ \E depth \in 1..MaxDepth : ef = MultiLevelEliasFano(X, depth)
    /\ op = "idle"
    /\ args = <<>>
    /\ res = OkInt(0)
    /\ blob = <<>>
    /\ origin = "constructor"

MLEFSelect ==
    \E k \in (0 - 1)..MaxLen :
        /\ op = "idle"
        /\ op' = "select"
        /\ args' = <<k>>
        /\ res' = MLEF_select(ef, k)
        /\ UNCHANGED <<X, ef, blob, origin>>

MLEFMatch ==
    \E value \in 0..MaxMask, ignore \in 0..MaxMask :
        /\ op = "idle"
        /\ op' = "match"
        /\ args' = <<value, ignore>>
        /\ res' = MLEF_match(ef, value, ignore)
        /\ UNCHANGED <<X, ef, blob, origin>>

MLEFIter ==
    /\ op = "idle"
    /\ op' = "iter"
    /\ args' = <<>>
    /\ res' = MLEF_iter(ef)
    /\ UNCHANGED <<X, ef, blob, origin>>

MLEFLen ==
    /\ op = "idle"
    /\ op' = "len"
    /\ args' = <<>>
    /\ res' = MLEF_len(ef)
    /\ UNCHANGED <<X, ef, blob, origin>>

\* MultiLevelEliasFano.to_bytes; the caller keeps the bytes it gets
MLEFToBytes ==
    /\ op = "idle"
    /\ op' = "to_bytes"
    /\ args' = <<>>
    /\ res' = MLEF_to_bytes(ef)
    /\ blob' = IF MLEF_to_bytes(ef).kind = "bytes" THEN MLEF_to_bytes(ef).list ELSE blob
    /\ UNCHANGED <<X, ef, origin>>

\* MultiLevelEliasFano.from_bytes of the bytes kept; the caller goes on with
\* the structure it returns
MLEFFromBytes ==
    /\ op = "idle"
    /\ blob /= <<>>
    /\ op' = "from_bytes"
    /\ args' = <<blob>>
    /\ res' = MLEF_from_bytes(blob).out
    /\ IF MLEF_from_bytes(blob).out.kind = "object"
       THEN ef' = MLEF_from_bytes(blob).obj /\ origin' = "from_bytes"
       ELSE UNCHANGED <<ef, origin>>
    /\ UNCHANGED <<X, blob>>

MLEFGetItem ==
    \E k \in (0 - 1)..MaxLen :
        /\ op = "idle"
        /\ op' = "getitem"
        /\ args' = <<k>>
        /\ res' = MLEF_getitem(ef, k)
        /\ UNCHANGED <<X, ef, blob, origin>>

NextMLEF ==
    \/ MLEFSelect
    \/ MLEFGetItem
    \/ MLEFMatch
    \/ MLEFIter
    \/ MLEFLen
    \/ MLEFToBytes
    \/ MLEFFromBytes
    \/ Return

SpecMLEF == InitMLEF /\ [][NextMLEF]_vars

----------------------------------------------------------------------------
\* the constructors as a caller meets them: each either raises or returns a
\* structure

\* no structure has been returned
NoObject == [n |-> 0]

\* EliasFano(sorted_integers) for any list of non-negative integers:
\* sorted_integers[-1] of the empty list raises IndexError, and so does the
\* write to _superiors[superior] for an upper half past the 2^upper_bits
\* buckets; nothing compares neighbouring elements
new_EliasFano(sorted_integers) ==
    IF sorted_integers = <<>> THEN [out |-> Raise("IndexError")]
    ELSE LET e == EliasFano(sorted_integers)
         IN IF /\ e.upper_bits > 0
               /\ \E i \in 1..Len(sorted_integers) :
                      ShiftR(sorted_integers[i], e.lower_bits) >= 2 ^ e.upper_bits
            THEN [out |-> Raise("IndexError")]
            ELSE [out |-> OkObject, obj |-> e]

\* UniformlyPartitionedEliasFano(numbers, b) taking chunks of one element
\* when b is 0
new_UniformlyPartitionedEliasFano_min1(numbers, b) ==
    [out |-> OkObject, obj |-> UniformlyPartitionedEliasFano(numbers, Max2(1, b))]

\* UniformlyPartitionedEliasFano(numbers, b) for a non-empty non-decreasing
\* list: range(0, len(numbers), 0) raises ValueError
new_UniformlyPartitionedEliasFano(numbers, b) ==
    IF b = 0 THEN [out |-> Raise("ValueError")]
    ELSE [out |-> OkObject, obj |-> UniformlyPartitionedEliasFano(numbers, b)]

\* MultiLevelEliasFano(sorted_integers, depth) for a non-empty non-decreasing
\* list: divmod(max_bits, 0) raises ZeroDivisionError
new_MultiLevelEliasFano(sorted_integers, depth) ==
    IF depth = 0 THEN [out |-> Raise("ZeroDivisionError")]
    ELSE [out |-> OkObject, obj |-> MultiLevelEliasFano(sorted_integers, depth)]

\* any list of at most MaxLen integers, empty and unsorted ones included
AnyInputs == UNION {[1..n -> 0..MaxVal] : n \in 0..MaxLen}

InitNew ==
    /\ X \in AnyInputs
    /\ ef = NoObject
    /\ op = "idle"
    /\ args = <<>>
    /\ res = OkInt(0)
    /\ blob = <<>>
    /\ origin = "none"

\* the caller goes on with the structure a constructor returned
NewEliasFano ==
    /\ op = "idle"
    /\ op' = "EliasFano"
    /\ args' = <<>>
    /\ res' = new_EliasFano(X).out
    /\ IF new_EliasFano(X).out.kind = "object"
       THEN ef' = new_EliasFano(X).obj /\ origin' = "constructor"
       ELSE UNCHANGED <<ef, origin>>
    /\ UNCHANGED <<X, blob>>

NewUniformlyPartitionedEliasFano ==
    /\ op = "idle"
    /\ X \in SortedInputs
    /\ \E b \in 0..MaxB :
           /\ op' = "UniformlyPartitionedEliasFano"
           /\ args' = <<b>>
           /\ res' = new_UniformlyPartitionedEliasFano(X, b).out
           /\ IF new_UniformlyPartitionedEliasFano(X, b).out.kind = "object"
              THEN ef' = new_UniformlyPartitionedEliasFano(X, b).obj
                   /\ origin' = "constructor"
              ELSE UNCHANGED <<ef, origin>>
    /\ UNCHANGED <<X, blob>>

NewMultiLevelEliasFano ==
    /\ op = "idle"
    /\ X \in SortedInputs
    /\ \E depth \in 0..MaxDepth :
           /\ op' = "MultiLevelEliasFano"
           /\ args' = <<depth>>
           /\ res' = new_MultiLevelEliasFano(X, depth).out
           /\ IF new_MultiLevelEliasFano(X, depth).out.kind = "object"
              THEN ef' = new_MultiLevelEliasFano(X, depth).obj
                   /\ origin' = "constructor"
              ELSE UNCHANGED <<ef, origin>>
    /\ UNCHANGED <<X, blob>>

NextNew ==
    \/ NewEliasFano
    \/ NewUniformlyPartitionedEliasFano
    \/ NewMultiLevelEliasFano
    \/ Return

SpecNew == InitNew /\ [][NextNew]_vars

----------------------------------------------------------------------------
\* what the claims compare the outcomes with, read off the input X

Stored == {X[i] : i \in 1..Len(X)}

IndicesOf(x) == {i \in 0..(Len(X) - 1) : At(X, i) = x}

Distinct == \A i, j \in 1..Len(X) : i /= j => X[i] /= X[j]

\* the items of lst that agree with value on the bits set in ignore
RECURSIVE Agreeing(_, _, _)
Agreeing(lst, value, ignore) ==
    IF lst = <<>> THEN <<>>
    ELSE (IF BitAnd(Head(lst), ignore) = BitAnd(value, ignore) THEN <<Head(lst)>> ELSE <<>>)
         \o Agreeing(Tail(lst), value, ignore)

\* the parameters of the data model: u, h and l of an input
UniverseOf(xs) == 2 ^ Max2(1, bit_length_int(xs[Len(xs)]))

UpperWidthOf(xs) == CeilLog2(Len(xs))

LowerWidthOf(xs) == Max2(0, FloorLog2Ratio(UniverseOf(xs), Len(xs)))

\* ceil(log2(u / n)) for integers u, n >= 1 (zero or negative when u < n)
CeilLog2Ratio(u, n) ==
    IF u >= n
    THEN CHOOSE c \in 0..u : n * (2 ^ c) >= u /\ \A d \in 0..(c - 1) : n * (2 ^ d) < u
    ELSE 0 - (CHOOSE k \in 0..n : u * (2 ^ k) <= n /\ u * (2 ^ (k + 1)) > n)

\* C1: select(i) returns X[i] for every index i in [0, n), for every
\* non-empty non-decreasing input (duplicates, n = 1 and lower width 0 included).
C1_SelectReturnsElement ==
    (op = "select" /\ args[1] >= 0 /\ args[1] < Len(X))
        => res = OkInt(At(X, args[1]))

\* a duplicate read back at its second position from a structure of lower width 0
C1_Witness ==
    /\ op = "select"
    /\ Len(X) >= 2
    /\ args[1] = 1
    /\ X[1] = X[2]
    /\ ef.lower_bits = 0
    /\ res = OkInt(X[2])

\* C2: rank of a stored value returns a list that holds every index at which
\* the value is stored; when the elements of X are distinct the list is exactly
\* <<i>>, select at that index gives the value back, and rank of select(i) is <<i>>.
C2_RankFindsStored ==
    (op = "rank" /\ args[1] \in Stored)
        => /\ res.kind = "list"
           /\ \A i \in IndicesOf(args[1]) : \E j \in 1..Len(res.list) : res.list[j] = i
           /\ Distinct =>
                 /\ Len(res.list) = 1
                 /\ select(ef, res.list[1]) = OkInt(args[1])
                 /\ \A i \in IndicesOf(args[1]) :
                       select(ef, i) = OkInt(args[1]) /\ res.list = <<i>>

\* rank of the second of at least two distinct values, both halves in use
C2_Witness ==
    /\ op = "rank"
    /\ Len(X) >= 2
    /\ Distinct
    /\ ef.upper_bits > 0
    /\ ef.lower_bits > 0
    /\ args[1] = X[2]
    /\ res = OkList(<<1>>)

\* C3: rank(x) never raises and returns exactly the indices {i : X[i] = x},
\* in particular the empty list for every x that is not stored.
C3_RankIsIndexSet ==
    op = "rank" => res = OkList(SortedList(IndicesOf(args[1])))

\* C4: len is n and iteration yields exactly X, with multiplicity, in order.
C4_IterYieldsInput ==
    /\ op = "len" => res = OkInt(Len(X))
    /\ op = "iter" => res = OkList(X)

\* C5: for every x <= X[n-1], nextGEQ(x) returns the smallest stored y >= x.
C5_NextGEQIsSuccessor ==
    (op = "nextGEQ" /\ args[1] <= X[Len(X)])
        => res = OkInt(SetMin({y \in Stored : y >= args[1]}))

\* C6: for every x >= X[0], nextLEQ(x) returns the largest stored y <= x.
C6_NextLEQIsPredecessor ==
    (op = "nextLEQ" /\ args[1] >= X[1])
        => res = OkInt(SetMax({y \in Stored : y <= args[1]}))

\* C7: nextGEQ(x) fails exactly when x > X[n-1] and nextLEQ(x) fails exactly
\* when x < X[0]; on no other input does either of them fail.
C7_FailsOnlyWithoutAnswer ==
    /\ op = "nextGEQ" => (res.kind = "error" <=> args[1] > X[Len(X)])
    /\ op = "nextLEQ" => (res.kind = "error" <=> args[1] < X[1])

\* C8: match(value, ignore) succeeds and yields, in order and with
\* multiplicity, exactly the stored y with (y & ignore) = (value & ignore).
C8_MatchYieldsAgreeing ==
    op = "match" => res = OkList(Agreeing(X, args[1], args[2]))

\* C9: bit_length() is (n + 2^h) + n*l for every n >= 1, n = 1 (h = 0)
\* included: the upper vector counts n + 2^h bits, the lower vector n*l bits.
C9_BitLengthAllN ==
    op = "bit_length"
        => res = OkInt((Len(X) + 2 ^ UpperWidthOf(X)) + Len(X) * LowerWidthOf(X))

\* C10: bit_length() is at most 2n + n*ceil(log2(u/n)).
C10_BitLengthBound ==
    op = "bit_length"
        => /\ res.kind = "int"
           /\ res.val <= 2 * Len(X) + Len(X) * CeilLog2Ratio(UniverseOf(X), Len(X))

\* the outcome of the call (op, args) on structure e
OutcomeOn(e) ==
    CASE op = "select" -> select(e, args[1])
      [] op = "rank" -> rank(e, args[1])
      [] op = "nextGEQ" -> nextGEQ(e, args[1])
      [] op = "nextLEQ" -> nextLEQ(e, args[1])
      [] op = "match" -> match(e, args[1], args[2])
      [] op = "iter" -> iter(e)
      [] op = "len" -> len(e)
      [] op = "bit_length" -> bit_length(e)
      [] op = "compression_ratio" -> compression_ratio(e)
      [] OTHER -> res

IsQuery ==
    op \in {"select", "rank", "nextGEQ", "nextLEQ", "match", "iter", "len",
            "bit_length", "compression_ratio"}

\* C11: the structure from_bytes rebuilds from the bytes of to_bytes has the
\* universe size of the original and answers every query as the original does.
C11_RoundTripEqual ==
    origin = "from_bytes"
        => /\ ef.u = EliasFano(X).u
           /\ IsQuery => res = OutcomeOn(EliasFano(X))

\* C12 (EliasFano): from_bytes of a blob that was cut short inside its payload,
\* or whose kind tag is not 0, fails and returns no structure.
C12_DamagedBlobRejected ==
    (op = "from_bytes" /\ args[1] /= blob) => res.kind = "error"

\* C13: for every chunk size b >= 1 (b = 1, b >= n and n not a multiple of b
\* included) select(i) of UniformlyPartitionedEliasFano(X, b) returns X[i] for
\* every i in [0, n).
C13_UPEFSelectReturnsElement ==
    (op = "select" /\ args[1] \in 0..(Len(X) - 1)) => res = OkInt(At(X, args[1]))

\* select has returned the last element, larger than the one before it, from
\* the last, shorter chunk of a structure of more than one chunk
C13_Witness ==
    /\ op = "select"
    /\ ef.b > 1
    /\ ef.b < Len(X)
    /\ Len(X) % ef.b /= 0
    /\ args[1] = Len(X) - 1
    /\ At(X, args[1]) > At(X, args[1] - 1)
    /\ res = OkInt(At(X, args[1]))

\* C14: for X of distinct integers rank(X[i]) of
\* UniformlyPartitionedEliasFano(X, b) returns the index i, and rank(x) of an x
\* that is not stored fails with the not-present error (ValueError).
C14_UPEFRankInvertsSelect ==
    (op = "rank" /\ Distinct)
        => IF args[1] \in Stored
           THEN res = OkInt(CHOOSE i \in IndicesOf(args[1]) : TRUE)
           ELSE res = Raise("ValueError")

\* C15: len of UniformlyPartitionedEliasFano(X, b) is n and iterating it
\* yields exactly X in order, duplicates included.
C15_UPEFLenAndIter ==
    /\ op = "len" => res = OkInt(Len(X))
    /\ op = "iter" => res = OkList(X)

\* C16: for every depth d in [1, W], W = max(1, bit_length(X[n-1])),
\* select(i) of MultiLevelEliasFano(X, d) returns X[i] for every i in [0, n).
C16_MLEFSelectReturnsElement ==
    (/\ op = "select"
     /\ ef.d <= Max2(1, bit_length_int(X[Len(X)]))
     /\ args[1] \in 0..(Len(X) - 1))
        => res = OkInt(At(X, args[1]))

\* select has returned the last element from the second child of a structure
\* whose first child is itself a MultiLevelEliasFano
C16_Witness ==
    /\ op = "select"
    /\ ef.d <= Max2(1, bit_length_int(X[Len(X)]))
    /\ Len(ef.level_2) >= 2
    /\ IsMultiLevel(ef.level_2[1])
    /\ args[1] = Len(X) - 1
    /\ args[1] >= ef.level_2[1].n
    /\ res = OkInt(At(X, args[1]))

\* C17: match(value, ignore) of MultiLevelEliasFano(X, d) yields, in
\* ascending order, exactly the stored y with (y & ignore) = (value & ignore),
\* for any depth d >= 1, n = 1 with d > 1 included.
C17_MLEFMatchYieldsAgreeing ==
    op = "match" => res = OkList(Agreeing(X, args[1], args[2]))

\* the bytes the children of m serialize to, all together
ChildrenByteCount(m) ==
    SumSeq([j \in 1..Len(m.level_2) |->
               IF IsMultiLevel(m.level_2[j]) THEN MLEF_to_bytes(m.level_2[j]).val
               ELSE to_bytes(m.level_2[j]).val])

\* C18: to_bytes() of MultiLevelEliasFano(X, d) succeeds for every depth
\* d >= 1, leaves included, and its bytes hold the five size bytes, n, the
\* three bytes max_bits, d, b, the byte count of level 1, the child count,
\* one byte count per child, the bytes of level 1 and those of the children;
\* from_bytes of those bytes returns a structure with the length of the
\* original and the same select(i) for every i.
C18_MLEFByteRoundTrip ==
    /\ op = "to_bytes"
         => /\ res.kind = "bytes"
            /\ res.val = 5 + res.list[2] + 3 + res.list[3] + res.list[4]
                           + Len(ef.level_2) * res.list[5]
                           + to_bytes(ef.level_1).val + ChildrenByteCount(ef)
    /\ op = "from_bytes"
         => /\ res.kind = "object"
            /\ MLEF_len(ef) = OkInt(Len(X))
            /\ \A i \in 0..(Len(X) - 1) : MLEF_select(ef, i) = OkInt(At(X, i))

\* C19: EliasFano of an empty sequence or of one that is not non-decreasing
\* raises an error and returns no structure.
C19_BadInputRejected ==
    (op = "EliasFano" /\ X \notin SortedInputs) => res.kind = "error"

\* C20: for every non-empty sorted input UniformlyPartitionedEliasFano with
\* b = 0 raises an error, and so does MultiLevelEliasFano with depth = 0.
C20_ZeroParameterRejected ==
    (/\ op \in {"UniformlyPartitionedEliasFano", "MultiLevelEliasFano"}
     /\ args[1] = 0)
        => res.kind = "error" /\ res.err \in {"ValueError", "ZeroDivisionError"}

\* UniformlyPartitionedEliasFano with b = 0 has raised ValueError on an input
\* of several distinct elements, and the caller holds no structure
C20_Witness ==
    /\ op = "UniformlyPartitionedEliasFano"
    /\ args = <<0>>
    /\ Len(X) >= 2
    /\ X[1] < X[Len(X)]
    /\ res = Raise("ValueError")
    /\ ef = NoObject

\* C21 (MultiLevelEliasFano): select(k) with k < 0 or k >= n raises the
\* index-out-of-range error (IndexError) and returns no value, for a leaf and
\* for a structure with children.
C21_SelectOutOfRangeIsIndexError ==
    (op = "select" /\ args[1] \notin 0..(Len(X) - 1)) => res = Raise("IndexError")

\* C22: an EliasFano is frozen.  Whatever queries have been made before,
\* successful or failed, n, u, l, h, the lower values, the bucket counts and
\* the prefix sums are those of the structure as it was built (by the
\* constructor, or by from_bytes from the bytes kept), and the outcome of a
\* query is its outcome on that structure.
C22_Frozen ==
    LET built == IF origin = "constructor" THEN EliasFano(X)
                 ELSE from_bytes(blob).obj
    IN /\ ef = built
       /\ IsQuery => res = OutcomeOn(built)
       /\ op = "to_bytes" => res = to_bytes(built)

\* a query has failed on a structure built by the constructor that has been
\* serialized before, and the structure still reads back every input element
C22_Witness ==
    /\ origin = "constructor"
    /\ blob /= <<>>
    /\ op \in {"rank", "nextGEQ", "nextLEQ", "select"}
    /\ res.kind = "error"
    /\ Len(X) >= 2
    /\ ef.lower_bits > 0
    /\ ef.upper_bits > 0
    /\ \A k \in 0..(Len(X) - 1) : select(ef, k) = OkInt(At(X, k))

\* C23 (UniformlyPartitionedEliasFano): structure[k] returns the integer
\* structure.select(k) returns, for every k in [0, n).
C23_SubscriptIsSelect ==
    (op = "getitem" /\ args[1] \in 0..(Len(X) - 1))
        => res = UPEF_select(ef, args[1])

\* C24: for every valid sorted input the constructor returns a structure
\* whose widths satisfy l + h >= W, W = max(1, bit_length(X[n-1])) and
\* u = 2^W; every stored value is < 2^(l+h) and every upper part x >> l is
\* < 2^h, so each element has one of the 2^h buckets.
C24_WidthsCoverUniverse ==
    (op = "EliasFano" /\ X \in SortedInputs)
        => /\ res.kind = "object"
           /\ ef.u = 2 ^ Max2(1, bit_length_int(X[Len(X)]))
           /\ ef.lower_bits + ef.upper_bits >= Max2(1, bit_length_int(X[Len(X)]))
           /\ \A i \in 1..Len(X) :
                  /\ X[i] < 2 ^ (ef.lower_bits + ef.upper_bits)
                  /\ ShiftR(X[i], ef.lower_bits) < 2 ^ ef.upper_bits

\* the constructor has built a structure of three elements with both widths
\* in use whose last element lies in the last of the 2^h buckets
C24_Witness ==
    /\ op = "EliasFano"
    /\ res.kind = "object"
    /\ X \in SortedInputs
    /\ Len(X) = 3
    /\ ef.lower_bits > 0
    /\ ef.upper_bits > 0
    /\ ShiftR(X[Len(X)], ef.lower_bits) = (2 ^ ef.upper_bits) - 1
    /\ ef.superiors[2 ^ ef.upper_bits] > 0

\* the number of stored elements whose upper part x >> l is below s
BelowBucket(s) ==
    Cardinality({i \in 1..Len(X) : ShiftR(X[i], ef.lower_bits) < s})

\* the buckets s with P[s] <= k < P[s+1]
BucketsOf(k) ==
    {s \in 0..((2 ^ ef.upper_bits) - 1) : BelowBucket(s) <= k /\ k < BelowBucket(s + 1)}

\* C25: for every k in [0, n) exactly one bucket s has P[s] <= k < P[s+1];
\* it is the first index whose running count exceeds k (bucket 0 when h = 0),
\* and select(k) returns (s << l) | lower(k), lower(k) being 0 when l = 0.
C25_SelectBucketLookup ==
    (op = "select" /\ args[1] \in 0..(Len(X) - 1))
        => LET k == args[1]
               s == CHOOSE t \in BucketsOf(k) : TRUE
               lower == IF ef.lower_bits = 0 THEN 0 ELSE At(ef.inferiors, k)
           IN /\ Cardinality(BucketsOf(k)) = 1
              /\ ef.upper_bits > 0
                    => s = SetMin({t \in 0..(Len(ef.superiors_prefixSums) - 1) :
                                      At(ef.superiors_prefixSums, t) > k})
              /\ ef.upper_bits = 0 => s = 0
              /\ res = OkInt(BitOr(ShiftL(s, ef.lower_bits), lower))

\* select has returned the first element of a bucket that follows an empty
\* bucket, with a non-zero lower part
C25_Witness ==
    /\ op = "select"
    /\ res.kind = "int"
    /\ ef.lower_bits > 0
    /\ ef.upper_bits > 0
    /\ \E s \in 2..(Len(ef.superiors) - 1) :
           /\ At(ef.superiors, s - 1) = 0
           /\ At(ef.superiors_prefixSums, s - 1) = args[1]
           /\ At(ef.superiors, s) > 0
           /\ At(ef.inferiors, args[1]) > 0
           /\ res.val = BitOr(ShiftL(s, ef.lower_bits), At(ef.inferiors, args[1]))

====
